---- MODULE Spec2Model ----
(***************************************************************************)
(* Model of the asynchronous job lifecycle of the YouTube MP3 downloader   *)
(* (src/app.py): the POST /download admission check, the worker thread     *)
(* (download_thread / download_audio), the progress hook, the history log  *)
(* and the polling handlers.                                               *)
(***************************************************************************)
EXTENDS Integers, Sequences, FiniteSets, TLC

\* ------------------------------------------------------------------ bounds
\* Number of download ids uuid.uuid4() issues in a run of the model.
MaxJobs == 2

\* Number of characters between the two runs of letters of a name given to
\* clean_filename.
MaxMid == 2

\* Number of .mp3 files in the download directory when auto_cleanup starts.
MaxFiles == 17

\* ------------------------------------------------------- program constants
MAX_CONCURRENT_DOWNLOADS == 1
\* save_to_history keeps the last 100 entries.
HISTORY_LIMIT == 100
\* clean_filename: names longer than 100 characters are cut to 95 + ext.
FILENAME_LIMIT == 100
FILENAME_KEEP == 95
\* check_pythonanywhere_limits: more than 600 seconds is too long.
MAX_DURATION_SECONDS == 600
\* download_audio: less than 0.1 GB free is insufficient; free space is
\* counted here in hundredths of a GB.
MIN_FREE_SPACE == 10

\* auto_cleanup: max_files, and the default of auto_cleanup_days on
\* PythonAnywhere; times are counted in hours.
max_files == 15
max_age_days == 1
HOURS_PER_DAY == 24

JobIds == 1..MaxJobs

\* ------------------------------------------------------------ strings
\* A string is a sequence of one-character strings.
IllegalChars == {"<", ">", ":", "\"", "/", "\\", "|", "?", "*"}
WhitespaceChars == {" ", "\t", "\n"}

\* re.sub(r'[<>:"/\\|?*]', '', filename)
RemoveIllegal(s) == SelectSeq(s, LAMBDA c : c \notin IllegalChars)

\* The name without its leading whitespace.
RECURSIVE SkipWhitespace(_)
SkipWhitespace(s) ==
    IF s # <<>> /\ Head(s) \in WhitespaceChars THEN SkipWhitespace(Tail(s)) ELSE s

\* re.sub(r'\s+', ' ', filename), computed by halves: a run of whitespace
\* that spans the middle gives one space, not one for each half.
RECURSIVE CollapseWhitespace(_)
CollapseWhitespace(s) ==
    IF Len(s) <= 1
    THEN IF s # <<>> /\ s[1] \in WhitespaceChars THEN <<" ">> ELSE s
    ELSE LET half == Len(s) \div 2
             left == CollapseWhitespace(SubSeq(s, 1, half))
             right == CollapseWhitespace(SubSeq(s, half + 1, Len(s)))
         IN  IF s[half] \in WhitespaceChars /\ s[half + 1] \in WhitespaceChars
             THEN left \o Tail(right)
             ELSE left \o right

\* The name without its trailing whitespace.
RECURSIVE DropTrailingWhitespace(_)
DropTrailingWhitespace(s) ==
    IF s # <<>> /\ s[Len(s)] \in WhitespaceChars
    THEN DropTrailingWhitespace(SubSeq(s, 1, Len(s) - 1))
    ELSE s

\* str.strip()
Strip(s) == DropTrailingWhitespace(SkipWhitespace(s))

\* os.path.splitext on a name without directory separators: the extension
\* starts at the last dot, unless that dot is among the leading dots.
LastDot(s) ==
    LET dots == {i \in 1..Len(s) : s[i] = "."}
    IN  IF dots = {} THEN 0 ELSE CHOOSE i \in dots : \A k \in dots : k <= i
LeadingDots(s) ==
    Cardinality({i \in 1..Len(s) : \A k \in 1..i : s[k] = "."})
SplitExt(s) ==
    LET d == LastDot(s)
    IN  IF d > LeadingDots(s)
        THEN [name |-> SubSeq(s, 1, d - 1), ext |-> SubSeq(s, d, Len(s))]
        ELSE [name |-> s, ext |-> <<>>]

Take(s, n) == SubSeq(s, 1, IF Len(s) < n THEN Len(s) ELSE n)

clean_filename(filename) ==
    LET cleaned == Strip(CollapseWhitespace(RemoveIllegal(filename)))
        parts == SplitExt(cleaned)
    IN  IF Len(cleaned) > FILENAME_LIMIT
        THEN Take(parts.name, FILENAME_KEEP) \o parts.ext
        ELSE cleaned

Mp3Ext == <<".", "m", "p", "3">>
WebmExt == <<".", "w", "e", "b", "m">>
M4aExt == <<".", "m", "4", "a">>
\* for ext in ['.mp3', '.webm', '.m4a']
ProbeOrder == <<Mp3Ext, WebmExt, M4aExt>>


\* ------------------------------------------------- external collaborators
\* The remote provider: the sources a client may name and the metadata
\* extract_info(url, download=False) may return for each.
ValidUrls == {"short", "restricted"}
Urls == ValidUrls \cup {"short&t=9s", "invalid"}
NoUrl == "None"

\* sanitize_url: strips the tracking parameter, then accepts only YouTube
\* URLs; None otherwise.
sanitize_url(u) ==
    LET stripped == IF u = "short&t=9s" THEN "short" ELSE u
    IN  IF stripped \in ValidUrls THEN stripped ELSE NoUrl

\* "short" is a short, unrestricted recording. "restricted" is a source that
\* is, at the time of the fetch, too long, a live broadcast or age-restricted.
Metadata(u) ==
    IF u = "short"
    THEN {[title |-> <<"A", "/", " ", " ", "b">>, duration |-> 600,
           is_live |-> FALSE, age_limit |-> 0]}
    ELSE {[title |-> <<"L", "?">>, duration |-> 601, is_live |-> FALSE, age_limit |-> 0],
          [title |-> <<"L", "?">>, duration |-> 0, is_live |-> TRUE, age_limit |-> 0],
          [title |-> <<"L", "?">>, duration |-> 30, is_live |-> FALSE, age_limit |-> 18]}

\* Messages of the DownloadError the provider may raise.
ProviderErrors == {"ERROR: Private video"}
\* Results of check_disk_space(), in hundredths of a GB.
FreeSpaces == {5, 50}
\* Percent values a 'downloading' progress event may carry.
Percents == {10, 60}
\* What the transfer leaves on disk under the cleaned title: the transcoded
\* .mp3, the untranscoded .webm, or nothing the probe looks for.
NoExt == <<>>
Artifacts == {Mp3Ext, WebmExt, NoExt}
\* os.path.getsize(path) / (1024 * 1024) of the artifact written with ext.
ArtifactSize(ext) == IF ext = Mp3Ext THEN 3 ELSE 5

\* ------------------------------------------------------------------ state
VARIABLES
    IS_PYTHONANYWHERE,   \* host detection, fixed at import
    active_downloads,    \* download id -> result recorded by download_thread
    download_progress,   \* download id -> status record
    history,             \* contents of HISTORY_FILE
    files,               \* DOWNLOAD_DIR: file name -> size in MB
    nextId,              \* number of download ids issued so far
    pc,                  \* position of each download_thread
    url,                 \* sanitized_url captured by each download_thread
    title,               \* download_audio: title
    clean_title,         \* download_audio: clean_title
    site,                \* line of the save_to_history call in progress
    loaded,              \* save_to_history: history as loaded from the file
    found,               \* download_audio: test_path and size_mb of the probe
    exc,                 \* exception in flight / handled in each thread
    result,              \* return value of download_audio
    appends,             \* log: the entries each thread has written to history
    arg_filename,        \* clean_filename: the argument of the call
    ret_filename,        \* clean_filename: the value returned
    clean_pc,            \* position of the clean_filename call
    mtimes,              \* DOWNLOAD_DIR: file name -> modification time
    mp3_files,           \* auto_cleanup: mp3_files, the names in sorted order
    deleted_count,       \* auto_cleanup: deleted_count
    to_delete,           \* auto_cleanup: to_delete
    cleanup_i,           \* auto_cleanup: index of the loop in progress
    cleanup_pc           \* position of the auto_cleanup call

\* The frame of a clean_filename call and of an auto_cleanup call.
cleanVars == <<arg_filename, ret_filename, clean_pc>>
cleanupVars == <<mtimes, mp3_files, deleted_count, to_delete, cleanup_i, cleanup_pc>>
toolVars == <<cleanVars, cleanupVars>>

vars == <<IS_PYTHONANYWHERE, active_downloads, download_progress, history, files,
          nextId, pc, url, title, clean_title, clean_title, site, loaded, found, exc, result,
          appends,
          toolVars>>

workerVars == <<pc, url, title, clean_title, clean_title, site, loaded, found, exc, result>>

NoMessage == [text |-> "", size_mb |-> 0]
NoFile == [name |-> <<>>, size_mb |-> 0]
NoExc == [type |-> "none", msg |-> ""]
NoResult == [status |-> "none", message |-> NoMessage, filename |-> <<>>,
             path |-> <<>>, size_mb |-> 0]
NoRecord == [status |-> "none", percent |-> 0, filename |-> <<>>,
             title |-> <<>>, message |-> NoMessage]
\* id 0 stands for a response that names no download id.
NoResp == [route |-> "none", code |-> 0, id |-> 0,
           progress |-> NoRecord, result |-> NoResult]

\* No clean_filename call and no auto_cleanup call is in progress.
NoCleanCall ==
    /\ arg_filename = <<>>
    /\ ret_filename = <<>>
    /\ clean_pc = "none"
NoCleanup ==
    /\ mtimes = <<>>
    /\ mp3_files = <<>>
    /\ deleted_count = 0
    /\ to_delete = 0
    /\ cleanup_i = 0
    /\ cleanup_pc = "none"

Init ==
    /\ IS_PYTHONANYWHERE \in BOOLEAN
    /\ active_downloads = <<>>
    /\ download_progress = <<>>
    /\ history = <<>>
    /\ files = <<>>
    /\ nextId = 0
    /\ pc = [j \in JobIds |-> "none"]
    /\ url = [j \in JobIds |-> NoUrl]
    /\ title = [j \in JobIds |-> <<>>]
    /\ clean_title = [j \in JobIds |-> <<>>]
    /\ site = [j \in JobIds |-> 0]
    /\ loaded = [j \in JobIds |-> <<>>]
    /\ found = [j \in JobIds |-> NoFile]
    /\ exc = [j \in JobIds |-> NoExc]
    /\ result = [j \in JobIds |-> NoResult]
    /\ appends = [j \in JobIds |-> <<>>]
    /\ NoCleanCall
    /\ NoCleanup

\* d[k] = v, adding the key when absent.
Put(d, k, v) == [x \in DOMAIN d \cup {k} |-> IF x = k THEN v ELSE d[x]]

\* ------------------------------------------------------- POST /download
Respond(route, code, id) ==
    [NoResp EXCEPT !.route = route, !.code = code, !.id = id]

\* The capacity check counting the running workers instead of the recorded
\* results.
AtCapacity_CountsRunning ==
    Cardinality({j \in JobIds : pc[j] \notin {"none", "done"}}) >= MAX_CONCURRENT_DOWNLOADS

\* The capacity check with > in place of >=.
AtCapacity_Strict == Cardinality(DOMAIN active_downloads) > MAX_CONCURRENT_DOWNLOADS

\* len(active_downloads) >= MAX_CONCURRENT_DOWNLOADS
AtCapacity == Cardinality(DOMAIN active_downloads) >= MAX_CONCURRENT_DOWNLOADS

\* The response of POST /download with url u in the current state.
DownloadResponse(u) ==
    IF sanitize_url(u) = NoUrl THEN Respond("download", 400, 0)
    ELSE IF AtCapacity THEN Respond("download", 429, 0)
    ELSE Respond("download", 200, nextId + 1)

\* The handler: a rejected request changes nothing; an admitted one issues
\* the id and starts download_thread.
Download(u) ==
    IF DownloadResponse(u).code # 200
    THEN UNCHANGED vars
    ELSE /\ nextId < MaxJobs
         /\ nextId' = nextId + 1
         /\ pc' = [pc EXCEPT ![nextId + 1] = "start"]
         /\ url' = [url EXCEPT ![nextId + 1] = sanitize_url(u)]
         /\ UNCHANGED <<toolVars, IS_PYTHONANYWHERE, active_downloads, download_progress,
                        history, files, title, clean_title, site, loaded, found, exc, result,
                        appends>>

\* ---------------------------------------------------- download_audio
InitialRecord ==
    [status |-> "starting", percent |-> 0, filename |-> <<>>, title |-> <<>>,
     message |-> NoMessage]

Raise(j, type, msg, handler) ==
    /\ exc' = [exc EXCEPT ![j] = [type |-> type, msg |-> msg]]
    /\ pc' = [pc EXCEPT ![j] = handler]

\* Lines 475-499: the precondition checks, then the initial status record.
Start(j) ==
    /\ pc[j] = "start"
    /\ \E ffmpeg_available \in BOOLEAN, free_space \in FreeSpaces :
        IF ~ffmpeg_available
        THEN /\ Raise(j, "Exception", "FFmpeg is not available", "thread_except")
             /\ UNCHANGED download_progress
        ELSE IF free_space < MIN_FREE_SPACE
        THEN /\ Raise(j, "Exception", "Insufficient disk space", "thread_except")
             /\ UNCHANGED download_progress
        ELSE /\ download_progress' = Put(download_progress, j, InitialRecord)
             /\ pc' = [pc EXCEPT ![j] = "extract"]
             /\ UNCHANGED exc
    /\ UNCHANGED <<toolVars, IS_PYTHONANYWHERE, active_downloads, history, files, nextId,
                   url, title, clean_title, site, loaded, found, result, appends>>

\* check_pythonanywhere_limits without its live-stream check.
check_limits_without_live(video_info) ==
    IF ~IS_PYTHONANYWHERE THEN ""
    ELSE IF video_info.duration > MAX_DURATION_SECONDS THEN "Video too long"
    ELSE IF video_info.age_limit > 0 THEN "Age-restricted videos cannot be downloaded."
    ELSE ""

\* The message of the exception check_pythonanywhere_limits raises, or "" when
\* it returns True.
check_pythonanywhere_limits(video_info) ==
    IF ~IS_PYTHONANYWHERE THEN ""
    ELSE IF video_info.duration > MAX_DURATION_SECONDS THEN "Video too long"
    ELSE IF video_info.is_live THEN "Live streams cannot be downloaded."
    ELSE IF video_info.age_limit > 0 THEN "Age-restricted videos cannot be downloaded."
    ELSE ""

\* Lines 558-572: metadata fetch, policy gate, title.
Extract(j) ==
    /\ pc[j] = "extract"
    /\ \/ \E m \in ProviderErrors :
            /\ Raise(j, "DownloadError", m, "except_download_error")
            /\ UNCHANGED <<title, clean_title, download_progress>>
       \/ \E fetched \in Metadata(url[j]) :
            LET limits == check_pythonanywhere_limits(fetched)
            IN  IF limits # ""
                THEN /\ Raise(j, "Exception", limits, "except_exception")
                     /\ UNCHANGED <<title, clean_title, download_progress>>
                ELSE /\ title' = [title EXCEPT ![j] = fetched.title]
                     /\ clean_title' =
                            [clean_title EXCEPT ![j] = clean_filename(fetched.title)]
                     /\ download_progress' =
                            [download_progress EXCEPT ![j].title = fetched.title]
                     /\ pc' = [pc EXCEPT ![j] = "exists_check"]
                     /\ UNCHANGED exc
    /\ UNCHANGED <<toolVars, IS_PYTHONANYWHERE, active_downloads, history, files, nextId,
                   url, site, loaded, found, result, appends>>

mp3_path(j) == clean_title[j] \o Mp3Ext

\* ExistsCheck without the test for an existing file: the transfer always
\* starts.
ExistsCheck_Redownload(j) ==
    /\ pc[j] = "exists_check"
    /\ download_progress' =
            [download_progress EXCEPT ![j].status = "downloading",
                                      ![j].percent = 0]
    /\ pc' = [pc EXCEPT ![j] = "transfer"]
    /\ UNCHANGED <<toolVars, IS_PYTHONANYWHERE, active_downloads, history, files, nextId,
                   url, title, clean_title, site, loaded, found, exc, result, appends>>

\* Lines 574-600: the existing-artifact shortcut, or the start of the transfer.
ExistsCheck(j) ==
    /\ pc[j] = "exists_check"
    /\ IF mp3_path(j) \in DOMAIN files
       THEN LET size_mb == files[mp3_path(j)]
                message == [text |-> "Already downloaded", size_mb |-> size_mb]
            IN  /\ download_progress' =
                        [download_progress EXCEPT ![j].status = "completed",
                                                  ![j].percent = 100,
                                                  ![j].filename = mp3_path(j),
                                                  ![j].message = message]
                /\ result' = [result EXCEPT ![j] =
                        [status |-> "exists", message |-> message,
                         filename |-> mp3_path(j), path |-> mp3_path(j),
                         size_mb |-> size_mb]]
                /\ pc' = [pc EXCEPT ![j] = "thread_ok"]
       ELSE /\ download_progress' =
                    [download_progress EXCEPT ![j].status = "downloading",
                                              ![j].percent = 0]
            /\ pc' = [pc EXCEPT ![j] = "transfer"]
            /\ UNCHANGED result
    /\ UNCHANGED <<toolVars, IS_PYTHONANYWHERE, active_downloads, history, files, nextId,
                   url, title, clean_title, site, loaded, found, exc, appends>>

\* progress_hook, d['status'] == 'downloading' (lines 504-514).
ProgressDownloading(j, percent) ==
    /\ pc[j] = "transfer"
    /\ download_progress' =
            IF j \in DOMAIN download_progress
            THEN [download_progress EXCEPT ![j].status = "downloading",
                                           ![j].percent = percent,
                                           ![j].filename = clean_title[j] \o WebmExt,
                                           ![j].title = title[j]]
            ELSE download_progress
    /\ UNCHANGED <<toolVars, IS_PYTHONANYWHERE, active_downloads, history, files, nextId,
                   workerVars, appends>>

\* progress_hook, d['status'] == 'finished' (lines 515-520).
ProgressFinished(j) ==
    /\ pc[j] = "transfer"
    /\ download_progress' =
            IF j \in DOMAIN download_progress
            THEN [download_progress EXCEPT ![j].status = "converting",
                                           ![j].percent = 100,
                                           ![j].filename = clean_title[j] \o WebmExt]
            ELSE download_progress
    /\ pc' = [pc EXCEPT ![j] = "postprocess"]
    /\ UNCHANGED <<toolVars, IS_PYTHONANYWHERE, active_downloads, history, files, nextId,
                   url, title, clean_title, site, loaded, found, exc, result, appends>>

\* ydl.download([url]) raises DownloadError (line 606).
TransferError(j) ==
    /\ pc[j] = "transfer"
    /\ \E m \in ProviderErrors : Raise(j, "DownloadError", m, "except_download_error")
    /\ UNCHANGED <<toolVars, IS_PYTHONANYWHERE, active_downloads, download_progress, history,
                   files, nextId, url, title, clean_title, site, loaded, found, result, appends>>

\* ydl.download([url]) returns (lines 606-609): the postprocessor has left
\* its output in the download directory.
PostProcess(j) ==
    /\ pc[j] = "postprocess"
    /\ \E ext \in Artifacts :
        files' = IF ext = NoExt THEN files
                 ELSE Put(files, clean_title[j] \o ext, ArtifactSize(ext))
    /\ pc' = [pc EXCEPT ![j] = "probe"]
    /\ UNCHANGED <<toolVars, IS_PYTHONANYWHERE, active_downloads, download_progress, history,
                   nextId, url, title, clean_title, site, loaded, found, exc, result, appends>>

\* Lines 612-617 and 639-640: the first extension of ProbeOrder whose file
\* exists, then the save_to_history call of the branch taken.
Probe(j) ==
    /\ pc[j] = "probe"
    /\ LET hits == {i \in 1..Len(ProbeOrder) :
                        clean_title[j] \o ProbeOrder[i] \in DOMAIN files}
       IN  IF hits # {}
           THEN LET first == CHOOSE i \in hits : \A k \in hits : i <= k
                    test_path == clean_title[j] \o ProbeOrder[first]
                IN  /\ found' = [found EXCEPT ![j] =
                            [name |-> test_path, size_mb |-> files[test_path]]]
                    /\ site' = [site EXCEPT ![j] = 619]
           ELSE /\ site' = [site EXCEPT ![j] = 640]
                /\ UNCHANGED found
    /\ pc' = [pc EXCEPT ![j] = "save_load"]
    /\ UNCHANGED <<toolVars, IS_PYTHONANYWHERE, active_downloads, download_progress, history,
                   files, nextId, url, title, clean_title, loaded, exc, result, appends>>

\* ---------------------------------------------------- save_to_history
\* The arguments of the call at each site.
HistoryEntry(j) ==
    CASE site[j] = 619 -> [url |-> url[j], title |-> title[j],
                           filename |-> found[j].name, size_mb |-> found[j].size_mb,
                           status |-> "success"]
      [] site[j] = 640 -> [url |-> url[j], title |-> title[j],
                           filename |-> <<>>, size_mb |-> 0, status |-> "failed"]
      [] OTHER         -> [url |-> url[j], title |-> <<>>,
                           filename |-> <<>>, size_mb |-> 0, status |-> "failed"]

\* The cut keeping the first n entries, history[:100], instead of the last.
KeepLast_Oldest(h, n) == IF Len(h) > n THEN SubSeq(h, 1, n) ELSE h

\* history[-100:]
KeepLast(h, n) == IF Len(h) > n THEN SubSeq(h, Len(h) - n + 1, Len(h)) ELSE h

\* Lines 213-220: load the existing history.
SaveLoad(j) ==
    /\ pc[j] = "save_load"
    /\ loaded' = [loaded EXCEPT ![j] = history]
    /\ pc' = [pc EXCEPT ![j] = "save_write"]
    /\ UNCHANGED <<toolVars, IS_PYTHONANYWHERE, active_downloads, download_progress, history,
                   files, nextId, url, title, clean_title, site, found, exc, result, appends>>

\* Where download_audio continues after the save_to_history call at a site.
AfterSave(j) ==
    CASE site[j] = 619 -> "complete"
      [] site[j] = 640 -> "except_exception"
      [] site[j] = 658 -> "thread_except"
      [] OTHER         -> "set_error"

\* Lines 222-229: append, keep the last 100, write the file; then the
\* statement after the call (line 641 raises).
SaveWrite(j) ==
    /\ pc[j] = "save_write"
    /\ history' = KeepLast(Append(loaded[j], HistoryEntry(j)), HISTORY_LIMIT)
    /\ appends' = [appends EXCEPT ![j] = Append(appends[j], HistoryEntry(j))]
    /\ loaded' = [loaded EXCEPT ![j] = <<>>]
    /\ pc' = [pc EXCEPT ![j] = AfterSave(j)]
    /\ exc' = IF site[j] = 640
              THEN [exc EXCEPT ![j] = [type |-> "Exception",
                        msg |-> "Download completed but file not found"]]
              ELSE exc
    /\ UNCHANGED <<toolVars, IS_PYTHONANYWHERE, active_downloads, download_progress, files,
                   nextId, url, title, clean_title, site, found, result>>

\* Complete without the update of the status record.
Complete_NoUpdate(j) ==
    /\ pc[j] = "complete"
    /\ LET message == [text |-> "Downloaded", size_mb |-> found[j].size_mb]
       IN  result' = [result EXCEPT ![j] =
                    [status |-> "success", message |-> message,
                     filename |-> found[j].name, path |-> found[j].name,
                     size_mb |-> found[j].size_mb]]
    /\ pc' = [pc EXCEPT ![j] = "thread_ok"]
    /\ UNCHANGED <<toolVars, IS_PYTHONANYWHERE, active_downloads, download_progress, history,
                   files, nextId, url, title, clean_title, site, loaded, found, exc, appends>>

\* Complete without its return: the probe loop ends and line 640 follows.
Complete_NoReturn(j) ==
    /\ pc[j] = "complete"
    /\ download_progress' =
            [download_progress EXCEPT ![j].status = "completed",
                                      ![j].percent = 100,
                                      ![j].filename = found[j].name,
                                      ![j].message = [text |-> "Downloaded",
                                                      size_mb |-> found[j].size_mb]]
    /\ site' = [site EXCEPT ![j] = 640]
    /\ pc' = [pc EXCEPT ![j] = "save_load"]
    /\ UNCHANGED <<toolVars, IS_PYTHONANYWHERE, active_downloads, history, files, nextId,
                   url, title, clean_title, loaded, found, exc, result, appends>>

\* Lines 621-637: the terminal update of the success path and the return.
Complete(j) ==
    /\ pc[j] = "complete"
    /\ LET message == [text |-> "Downloaded", size_mb |-> found[j].size_mb]
       IN  /\ download_progress' =
                    [download_progress EXCEPT ![j].status = "completed",
                                              ![j].percent = 100,
                                              ![j].filename = found[j].name,
                                              ![j].message = message]
           /\ result' = [result EXCEPT ![j] =
                    [status |-> "success", message |-> message,
                     filename |-> found[j].name, path |-> found[j].name,
                     size_mb |-> found[j].size_mb]]
    /\ pc' = [pc EXCEPT ![j] = "thread_ok"]
    /\ UNCHANGED <<toolVars, IS_PYTHONANYWHERE, active_downloads, history, files, nextId,
                   url, title, clean_title, site, loaded, found, exc, appends>>

\* Lines 647-655: the user-friendly text for a provider error.
FriendlyError(msg) ==
    CASE msg = "ERROR: Private video" -> "This video is private or requires login."
      [] msg = "ERROR: Video unavailable" ->
            "This video is unavailable in your country or has been removed."
      [] msg = "ERROR: Sign in to confirm your age" ->
            "This video requires age verification."
      [] msg = "ERROR: HTTP Error 429: Too Many Requests" ->
            "Too many requests. Please wait a few minutes."
      [] OTHER -> msg

\* Lines 643-659: except yt_dlp.utils.DownloadError. The exception raised at
\* line 659 leaves the try statement: no other except clause of it runs.
ExceptDownloadError(j) ==
    /\ pc[j] = "except_download_error"
    /\ exc' = [exc EXCEPT ![j] = [type |-> "Exception",
                                  msg |-> FriendlyError(exc[j].msg)]]
    /\ site' = [site EXCEPT ![j] = 658]
    /\ pc' = [pc EXCEPT ![j] = "save_load"]
    /\ UNCHANGED <<toolVars, IS_PYTHONANYWHERE, active_downloads, download_progress, history,
                   files, nextId, url, title, clean_title, loaded, found, result, appends>>

\* ExceptException with the status record set to error before the history
\* call instead of after it.
ExceptException_ErrorFirst(j) ==
    /\ pc[j] = "except_exception"
    /\ download_progress' =
            [download_progress EXCEPT ![j].status = "error",
                                      ![j].message = [text |-> exc[j].msg,
                                                      size_mb |-> 0]]
    /\ site' = [site EXCEPT ![j] = 666]
    /\ pc' = [pc EXCEPT ![j] = "save_load"]
    /\ UNCHANGED <<toolVars, IS_PYTHONANYWHERE, active_downloads, history, files, nextId,
                   url, title, clean_title, loaded, found, exc, result, appends>>

\* Lines 661-666: except Exception, up to its save_to_history call.
ExceptException(j) ==
    /\ pc[j] = "except_exception"
    /\ site' = [site EXCEPT ![j] = 666]
    /\ pc' = [pc EXCEPT ![j] = "save_load"]
    /\ UNCHANGED <<toolVars, IS_PYTHONANYWHERE, active_downloads, download_progress, history,
                   files, nextId, url, title, clean_title, loaded, found, exc, result, appends>>

\* Lines 668-674: the terminal update of the failure path and the re-raise.
SetError(j) ==
    /\ pc[j] = "set_error"
    /\ download_progress' =
            [download_progress EXCEPT ![j].status = "error",
                                      ![j].message = [text |-> exc[j].msg,
                                                      size_mb |-> 0]]
    /\ pc' = [pc EXCEPT ![j] = "thread_except"]
    /\ UNCHANGED <<toolVars, IS_PYTHONANYWHERE, active_downloads, history, files, nextId,
                   url, title, clean_title, site, loaded, found, exc, result, appends>>


\* ---------------------------------------------------- download_thread
\* Line 757: active_downloads[download_id] = result
ThreadOk(j) ==
    /\ pc[j] = "thread_ok"
    /\ active_downloads' = Put(active_downloads, j, result[j])
    /\ pc' = [pc EXCEPT ![j] = "done"]
    /\ UNCHANGED <<toolVars, IS_PYTHONANYWHERE, download_progress, history, files, nextId,
                   url, title, clean_title, site, loaded, found, exc, result, appends>>

\* download_thread without its except clause: the exception ends the thread
\* and no result is recorded.
ThreadExcept_NoRecord(j) ==
    /\ pc[j] = "thread_except"
    /\ pc' = [pc EXCEPT ![j] = "done"]
    /\ UNCHANGED <<toolVars, IS_PYTHONANYWHERE, active_downloads, download_progress,
                   history, files, nextId, url, title, clean_title, site, loaded,
                   found, exc, result, appends>>

\* Line 760: active_downloads[download_id] = {"status": "error", ...}
ThreadExcept(j) ==
    /\ pc[j] = "thread_except"
    /\ active_downloads' = Put(active_downloads, j,
            [NoResult EXCEPT !.status = "error",
                             !.message = [text |-> exc[j].msg, size_mb |-> 0]])
    /\ pc' = [pc EXCEPT ![j] = "done"]
    /\ UNCHANGED <<toolVars, IS_PYTHONANYWHERE, download_progress, history, files, nextId,
                   url, title, clean_title, site, loaded, found, exc, result, appends>>

\* The steps by which the thread advances; a progress event leaves it inside
\* ydl.download.
WorkerStep(j) ==
    \/ Start(j)
    \/ Extract(j)
    \/ ExistsCheck(j)
    \/ ProgressFinished(j)
    \/ TransferError(j)
    \/ PostProcess(j)
    \/ Probe(j)
    \/ SaveLoad(j)
    \/ SaveWrite(j)
    \/ Complete(j)
    \/ ExceptDownloadError(j)
    \/ ExceptException(j)
    \/ SetError(j)
    \/ ThreadOk(j)
    \/ ThreadExcept(j)

\* ------------------------------------------------- GET /progress/<id>
\* The response of GET /progress/<id> in the current state.
ProgressResponse(id) ==
    IF id \in DOMAIN download_progress
    THEN [Respond("progress", 200, id) EXCEPT !.progress = download_progress[id]]
    ELSE IF id \in DOMAIN active_downloads
    THEN [Respond("progress", 200, id) EXCEPT
                !.progress = [NoRecord EXCEPT !.status = "completed", !.percent = 100],
                !.result = active_downloads[id]]
    ELSE Respond("progress", 404, id)

\* The handler reads the two dictionaries and writes nothing.
GetProgress(id) ==
    /\ ProgressResponse(id).route = "progress"
    /\ UNCHANGED vars

\* ------------------------------------------- GET /download-file/<id>
\* The response of GET /download-file/<id> in the current state: the file is
\* sent when active_downloads holds a success or exists result for the id
\* and its path exists.
DownloadFileResponse(id) ==
    IF /\ id \in DOMAIN active_downloads
       /\ active_downloads[id].status \in {"success", "exists"}
       /\ active_downloads[id].path \in DOMAIN files
    THEN [Respond("download-file", 200, id) EXCEPT !.result = active_downloads[id]]
    ELSE Respond("download-file", 404, id)

\* The handler reads active_downloads and the directory and writes nothing.
DownloadFile(id) ==
    /\ DownloadFileResponse(id).route = "download-file"
    /\ UNCHANGED vars

\* ------------------------------------------------- POST /clear-history
ClearHistory ==
    /\ history' = <<>>
    /\ UNCHANGED <<toolVars, IS_PYTHONANYWHERE, active_downloads, download_progress, files,
                   nextId, workerVars, appends>>

Next ==
    \/ \E u \in Urls : Download(u)
    \/ \E j \in JobIds : WorkerStep(j)
    \/ \E j \in JobIds, percent \in Percents : ProgressDownloading(j, percent)
    \/ \E id \in JobIds : GetProgress(id)
    \/ \E id \in JobIds : DownloadFile(id)
    \/ ClearHistory

Spec == Init /\ [][Next]_vars

\* The threads are scheduled fairly and every library call returns.
FairSpec == Spec /\ \A j \in JobIds : WF_vars(WorkerStep(j))


\* ------------------------------------------- a history file of earlier runs
\* HISTORY_FILE outlives the process: the entries earlier runs have left in
\* it, told apart here by their sizes.
OldEntry(i) ==
    [url |-> "short", title |-> <<"o", "l", "d">>, filename |-> <<>>,
     size_mb |-> i, status |-> "success"]
OldHistory(n) == [i \in 1..n |-> OldEntry(i)]

\* The state after construction when the file is one entry short of the
\* limit save_to_history keeps, or at it.
HistoryInit ==
    /\ IS_PYTHONANYWHERE \in BOOLEAN
    /\ active_downloads = <<>>
    /\ download_progress = <<>>
    /\ history \in {OldHistory(HISTORY_LIMIT - 1), OldHistory(HISTORY_LIMIT)}
    /\ files = <<>>
    /\ nextId = 0
    /\ pc = [j \in JobIds |-> "none"]
    /\ url = [j \in JobIds |-> NoUrl]
    /\ title = [j \in JobIds |-> <<>>]
    /\ clean_title = [j \in JobIds |-> <<>>]
    /\ site = [j \in JobIds |-> 0]
    /\ loaded = [j \in JobIds |-> <<>>]
    /\ found = [j \in JobIds |-> NoFile]
    /\ exc = [j \in JobIds |-> NoExc]
    /\ result = [j \in JobIds |-> NoResult]
    /\ appends = [j \in JobIds |-> <<>>]
    /\ NoCleanCall
    /\ NoCleanup

HistorySpec == HistoryInit /\ [][Next]_vars

\* -------------------------------------------------- the server at rest
\* The registries and threads as they are before any request.
serverVars == <<active_downloads, download_progress, history, nextId, workerVars,
                appends>>
ServerIdle ==
    /\ active_downloads = <<>>
    /\ download_progress = <<>>
    /\ history = <<>>
    /\ nextId = 0
    /\ pc = [j \in JobIds |-> "none"]
    /\ url = [j \in JobIds |-> NoUrl]
    /\ title = [j \in JobIds |-> <<>>]
    /\ clean_title = [j \in JobIds |-> <<>>]
    /\ site = [j \in JobIds |-> 0]
    /\ loaded = [j \in JobIds |-> <<>>]
    /\ found = [j \in JobIds |-> NoFile]
    /\ exc = [j \in JobIds |-> NoExc]
    /\ result = [j \in JobIds |-> NoResult]
    /\ appends = [j \in JobIds |-> <<>>]

\* ------------------------------------------------ clean_filename, called
\* The names clean_filename is called with: a run of letters up to the
\* lengths around the cut, then up to MaxMid characters among the illegal
\* ones, the whitespace, the dot and a letter, then a run of letters long
\* enough to pass the limit.
Fill(c, n) == [i \in 1..n |-> c]
TitleChars == IllegalChars \cup WhitespaceChars \cup {".", "c"}
Mids == UNION {[1..k -> TitleChars] : k \in 0..MaxMid}
HeadLens == {0} \cup ((FILENAME_KEEP - 2)..(FILENAME_KEEP + 1))
TailLens == {0, FILENAME_LIMIT - FILENAME_KEEP + 1}
Titles ==
    {Fill("a", n) \o mid \o Fill("b", m) :
        n \in HeadLens, mid \in Mids, m \in TailLens}

CleanInit ==
    /\ IS_PYTHONANYWHERE \in BOOLEAN
    /\ files = <<>>
    /\ ServerIdle
    /\ arg_filename \in Titles
    /\ ret_filename = <<>>
    /\ clean_pc = "call"
    /\ NoCleanup

\* The call returns clean_filename(filename).
CleanFilename ==
    /\ clean_pc = "call"
    /\ ret_filename' = clean_filename(arg_filename)
    /\ clean_pc' = "return"
    /\ UNCHANGED <<IS_PYTHONANYWHERE, files, serverVars, arg_filename, cleanupVars>>

CleanNext == CleanFilename

CleanSpec == CleanInit /\ [][CleanNext]_vars

\* ---------------------------------------------------------- auto_cleanup
\* time.time() and the cutoff of line 404.
now == 3 * HOURS_PER_DAY
cutoff == now - max_age_days * HOURS_PER_DAY

\* The directory auto_cleanup finds: n .mp3 files of which the first old
\* ones are older than the cutoff, the next one is exactly at it and the
\* others newer, and possibly an old file that is not an .mp3.
Mp3Name(i) == Fill("f", i) \o Mp3Ext
StrayName == <<"s">> \o WebmExt
Mp3Mtime(i, old) == IF i <= old THEN i ELSE cutoff + (i - old) - 1
DirNames(n, stray) ==
    {Mp3Name(i) : i \in 1..n} \cup (IF stray THEN {StrayName} ELSE {})
DirMtimes(n, old, stray) ==
    [f \in DirNames(n, stray) |->
        IF f = StrayName THEN 1 ELSE Mp3Mtime(Len(f) - Len(Mp3Ext), old)]

CleanupInit ==
    /\ IS_PYTHONANYWHERE \in BOOLEAN
    /\ ServerIdle
    /\ NoCleanCall
    /\ \E n \in 0..MaxFiles, old \in 0..MaxFiles, stray \in BOOLEAN :
            /\ old <= n
            /\ mtimes = DirMtimes(n, old, stray)
            /\ files = [f \in DirNames(n, stray) |-> 3]
    /\ mp3_files = <<>>
    /\ deleted_count = 0
    /\ to_delete = 0
    /\ cleanup_i = 0
    /\ cleanup_pc = "start"

\* file.endswith('.mp3')
IsMp3(f) ==
    /\ Len(f) >= Len(Mp3Ext)
    /\ SubSeq(f, Len(f) - Len(Mp3Ext) + 1, Len(f)) = Mp3Ext

\* mp3_files.sort(): by modification time, oldest first. No two files of
\* the directory have the same modification time.
RECURSIVE SortByMtime(_)
SortByMtime(names) ==
    IF names = {} THEN <<>>
    ELSE LET oldest == CHOOSE f \in names : \A g \in names : mtimes[f] <= mtimes[g]
         IN  <<oldest>> \o SortByMtime(names \ {oldest})

\* os.remove(filepath) inside try / except: continue. The removal of a file
\* that is there succeeds and is counted; that of a missing file raises and
\* the loop goes on.
TryRemove(f) ==
    IF f \in DOMAIN files
    THEN /\ files' = [g \in DOMAIN files \ {f} |-> files[g]]
         /\ deleted_count' = deleted_count + 1
    ELSE UNCHANGED <<files, deleted_count>>

\* Lines 391-416: the early return, or the sorted list of the .mp3 files.
CleanupStart ==
    /\ cleanup_pc = "start"
    /\ IF ~IS_PYTHONANYWHERE
       THEN /\ cleanup_pc' = "done"
            /\ UNCHANGED <<mp3_files, cleanup_i>>
       ELSE /\ mp3_files' = SortByMtime({f \in DOMAIN files : IsMp3(f)})
            /\ cleanup_i' = 1
            /\ cleanup_pc' = "age"
    /\ UNCHANGED <<IS_PYTHONANYWHERE, files, serverVars, cleanVars, mtimes,
                   deleted_count, to_delete>>

\* Lines 419-431: one round of the loop over the files older than the
\* cutoff; after the last one, remaining_files and to_delete.
CleanupAge ==
    /\ cleanup_pc = "age"
    /\ IF cleanup_i <= Len(mp3_files)
       THEN /\ IF mtimes[mp3_files[cleanup_i]] < cutoff
               THEN TryRemove(mp3_files[cleanup_i])
               ELSE UNCHANGED <<files, deleted_count>>
            /\ cleanup_i' = cleanup_i + 1
            /\ UNCHANGED <<to_delete, cleanup_pc>>
       ELSE LET remaining_files == Len(mp3_files) - deleted_count
            IN  /\ to_delete' = IF remaining_files > max_files
                                THEN remaining_files - max_files ELSE 0
                /\ cleanup_i' = 0
                /\ cleanup_pc' = "limit"
                /\ UNCHANGED <<files, deleted_count>>
    /\ UNCHANGED <<IS_PYTHONANYWHERE, serverVars, cleanVars, mtimes, mp3_files>>

\* Lines 432-444: one round of for i in range(to_delete), removing
\* mp3_files[i]; after the last one, the return.
CleanupLimit ==
    /\ cleanup_pc = "limit"
    /\ IF cleanup_i < to_delete
       THEN /\ TryRemove(mp3_files[cleanup_i + 1])
            /\ cleanup_i' = cleanup_i + 1
            /\ UNCHANGED cleanup_pc
       ELSE /\ cleanup_pc' = "done"
            /\ UNCHANGED <<files, deleted_count, cleanup_i>>
    /\ UNCHANGED <<IS_PYTHONANYWHERE, serverVars, cleanVars, mtimes, mp3_files,
                   to_delete>>

CleanupNext == CleanupStart \/ CleanupAge \/ CleanupLimit

CleanupSpec == CleanupInit /\ [][CleanupNext]_vars

\* ------------------------------------------------------------- properties
TerminalStates == {"completed", "exists", "error"}
SuccessStates == {"completed", "exists"}

HasRecord(j) == j \in DOMAIN download_progress
Status(j) == IF HasRecord(j) THEN download_progress[j].status ELSE "none"
Issued(j) == pc[j] # "none"
\* The worker thread of j has been started and has not finished.
Running(j) == pc[j] \notin {"none", "done"}
\* Some step of the worker of j has raised.
Failed(j) == exc[j].type # "none"
PreconditionMessages == {"FFmpeg is not available", "Insufficient disk space"}

\* C1: a POST /download with a valid URL that arrives while the worker of an
\* admitted job is still running is answered with 429, and no second worker
\* is started.
C1_AdmissionControl ==
    /\ \A u \in Urls :
        (sanitize_url(u) # NoUrl /\ \E j \in JobIds : Running(j))
            => DownloadResponse(u).code = 429
    /\ Cardinality({j \in JobIds : Running(j)}) <= MAX_CONCURRENT_DOWNLOADS

C3_FailureBecomesError ==
    \A j \in JobIds :
        (pc[j] = "done" /\ HasRecord(j) /\ Failed(j)) => Status(j) = "error"

\* C4: from the moment POST /download has issued an id, GET /progress/<id>
\* returns a status record, never the not-found response.
C4_IssuedIdHasRecord ==
    \A j \in JobIds :
        Issued(j) => /\ ProgressResponse(j).code = 200
                     /\ ProgressResponse(j).progress.status # "none"


\* C5: once the status record of a job is in a terminal state, no step
\* changes any field of it.
C5_TerminalImmutable ==
    [][\A j \in JobIds :
          (HasRecord(j) /\ Status(j) \in TerminalStates)
              => /\ j \in DOMAIN download_progress'
                 /\ download_progress'[j] = download_progress[j]]_vars

\* A terminal record whose thread has gone on to finish, beside another thread
\* that is still taking steps.
C5_Witness ==
    \E j, k \in JobIds :
        /\ Status(j) \in TerminalStates
        /\ pc[j] = "done"
        /\ k # j
        /\ Status(k) = "converting"

\* C6: when a source is submitted again after a first run for it has finished
\* and produced an artifact, the second submission runs.
C6_ResubmissionRuns ==
    \A j \in JobIds :
        (/\ pc[j] = "done"
         /\ j \in DOMAIN active_downloads
         /\ active_downloads[j].status = "success"
         /\ active_downloads[j].path \in DOMAIN files)
            => DownloadResponse(url[j]).code = 200

\* The metadata marks the source as too long, live or age-restricted.
Flagged(m) ==
    m.duration > MAX_DURATION_SECONDS \/ m.is_live \/ m.age_limit > 0
RestrictedSource(u) == u \in ValidUrls /\ \A m \in Metadata(u) : Flagged(m)
\* The thread is inside ydl.download or past it.
TransferStarted(j) ==
    pc[j] \in {"transfer", "postprocess", "probe", "complete", "thread_ok"}
\* The metadata fetch of the job returned metadata: the job has a record and
\* the failure it ended with, if any, is not the provider's.
MetadataFetched(j) ==
    /\ HasRecord(j)
    /\ exc[j].msg \notin {FriendlyError(m) : m \in ProviderErrors}

PolicyGate(j) ==
    RestrictedSource(url[j])
        => /\ Status(j) \notin {"downloading", "converting", "completed"}
           /\ ~TransferStarted(j)
           /\ (pc[j] = "done" /\ MetadataFetched(j)) => Status(j) = "error"

\* C7, as claimed: for a source whose metadata is flagged, the record goes to
\* error, the transfer is never started and downloading is never recorded.
C7_PolicyGate == \A j \in JobIds : PolicyGate(j)

\* C7, amended: the same, when running on PythonAnywhere.
C7_PolicyGateOnPythonAnywhere ==
    IS_PYTHONANYWHERE => \A j \in JobIds : PolicyGate(j)

C7_Witness ==
    /\ IS_PYTHONANYWHERE
    /\ \E j \in JobIds :
        /\ RestrictedSource(url[j])
        /\ pc[j] = "done"
        /\ exc[j].msg = "Live streams cannot be downloaded."
        /\ Status(j) = "error"

Outcome(status) == IF status \in SuccessStates THEN "success" ELSE "failed"

\* C8: every job whose record has reached a terminal state and whose thread
\* has finished has written exactly one history entry, with the matching
\* outcome.
C8_HistoryAppend ==
    \A j \in JobIds :
        (pc[j] = "done" /\ Status(j) \in TerminalStates)
            => /\ Len(appends[j]) = 1
               /\ appends[j][1].status = Outcome(Status(j))

\* C9: whenever the record of a job is in state error, that job has already
\* written a history entry with outcome failed for its URL.
C9_FailureOrdering ==
    \A j \in JobIds :
        Status(j) = "error"
            => \E i \in 1..Len(appends[j]) :
                    /\ appends[j][i].status = "failed"
                    /\ appends[j][i].url = url[j]

C9_Witness ==
    \E j \in JobIds : Status(j) = "error" /\ pc[j] = "thread_except"

\* C10: when the transcoding tool is unavailable or disk space is short, once
\* the thread has finished GET /progress/<id> shows state error.
C10_FatalBeforeStart ==
    \A j \in JobIds :
        (pc[j] = "done" /\ exc[j].msg \in PreconditionMessages)
            => /\ ProgressResponse(j).code = 200
               /\ ProgressResponse(j).progress.status = "error"

\* C11: whenever the status record of a job shows completed or exists and the
\* file it names is on disk, GET /download-file/<id> serves the artifact; for
\* a job in any other state it answers not-found.
C11_RetrievalFollowsTerminal ==
    \A j \in JobIds :
        IF /\ Status(j) \in SuccessStates
           /\ download_progress[j].filename \in DOMAIN files
        THEN DownloadFileResponse(j).code = 200
        ELSE DownloadFileResponse(j).code = 404

\* C12: while the record of a job stays in state downloading, no step lowers
\* its percent.
C12_ProgressMonotone ==
    [][\A j \in JobIds :
          (Status(j) = "downloading" /\ download_progress'[j].status = "downloading")
              => download_progress'[j].percent >= download_progress[j].percent]_vars

\* The thread of j is at the existing-file test and the target file exists.
AtShortcut(j) == pc[j] = "exists_check" /\ mp3_path(j) \in DOMAIN files
\* The thread of j has taken the shortcut and has yet to record its result.
AfterShortcut(j) == pc[j] = "thread_ok" /\ result[j].status = "exists"
\* The step leaves the registry entries of every job but j as they are.
OthersUntouched(j) ==
    \A k \in JobIds \ {j} :
        /\ k \in DOMAIN download_progress' <=> k \in DOMAIN download_progress
        /\ k \in DOMAIN download_progress
                => download_progress'[k] = download_progress[k]
        /\ k \in DOMAIN active_downloads' <=> k \in DOMAIN active_downloads
        /\ k \in DOMAIN active_downloads
                => active_downloads'[k] = active_downloads[k]

\* C16: when the target file exists at the existing-file test, the steps of
\* that thread from the test to its end leave the directory and the history
\* as they are, write only the registry entries of that job, never start the
\* transfer and never record state downloading; the job writes no history
\* entry.
C16_ShortcutFrame ==
    /\ [](\A j \in JobIds :
            result[j].status = "exists"
                => /\ appends[j] = <<>>
                   /\ Status(j) = "completed"
                   /\ pc[j] \in {"thread_ok", "done"})
    /\ [][\A j \in JobIds :
            ((AtShortcut(j) \/ AfterShortcut(j)) /\ pc'[j] # pc[j])
                => /\ files' = files
                   /\ history' = history
                   /\ appends' = appends
                   /\ OthersUntouched(j)
                   /\ pc'[j] \in {"thread_ok", "done"}
                   /\ download_progress'[j].status = "completed"
                   /\ AtShortcut(j) => active_downloads' = active_downloads]_vars

C16_Witness ==
    \E j \in JobIds :
        /\ pc[j] = "done"
        /\ j \in DOMAIN active_downloads
        /\ active_downloads[j].status = "exists"

\* C17: as long as no job has recorded its result, also while workers are
\* running, every POST /download with a valid URL passes the check and is
\* given the next job id.
C17_RacyAdmission ==
    (\A j \in JobIds : pc[j] # "done")
        => \A u \in Urls :
                sanitize_url(u) # NoUrl
                    => /\ DownloadResponse(u).code = 200
                       /\ DownloadResponse(u).id = nextId + 1

\* Two admitted jobs whose workers are both inside the transfer.
C17_Witness ==
    /\ nextId = 2
    /\ \A j \in 1..2 : pc[j] = "transfer" /\ Status(j) = "downloading"

\* C19: results are never removed from active_downloads, and once a job has
\* finished and recorded its result every POST /download with a valid URL is
\* answered 429.
C19_PermanentLockout ==
    /\ [](\A u \in Urls :
            (sanitize_url(u) # NoUrl /\ \E j \in JobIds : pc[j] = "done")
                => DownloadResponse(u).code = 429)
    /\ [][\A j \in JobIds :
            j \in DOMAIN active_downloads
                => /\ j \in DOMAIN active_downloads'
                   /\ active_downloads'[j] = active_downloads[j]]_vars

\* A finished job with no worker running, and the next submission rejected.
C19_Witness ==
    /\ \E j \in JobIds : pc[j] = "done" /\ active_downloads[j].status = "error"
    /\ \A j \in JobIds : ~Running(j)
    /\ nextId < MaxJobs
    /\ DownloadResponse("short").code = 429

\* C20: below the 100-entry cap, a completed save_to_history call leaves
\* every entry that is in the persisted history in place.
C20_NoLostEntries ==
    [][\A j \in JobIds :
          (pc[j] = "save_write" /\ pc'[j] # pc[j] /\ Len(history) < HISTORY_LIMIT)
              => /\ Len(history') = Len(history) + 1
                 /\ \A i \in 1..Len(history) : history'[i] = history[i]]_vars

\* C15: the persisted history never holds more than 100 entries, and a
\* save_to_history call that no other write to the file overlaps leaves the
\* entries it found in their order, followed by the new entry, less exactly
\* the oldest ones beyond 100.
C15_BoundedHistory ==
    /\ [](Len(history) <= HISTORY_LIMIT)
    /\ [][\A j \in JobIds :
            (pc[j] = "save_write" /\ pc'[j] # pc[j] /\ loaded[j] = history)
                => LET kept == Len(history')
                       dropped == Len(history) + 1 - kept
                   IN  /\ kept = IF Len(history) < HISTORY_LIMIT
                                 THEN Len(history) + 1 ELSE HISTORY_LIMIT
                       /\ history'[kept] = appends'[j][Len(appends'[j])]
                       /\ \A i \in 1..(kept - 1) :
                                history'[i] = history[i + dropped]]_vars

\* A full history after an append that has pushed the oldest entry out.
C15_Witness ==
    /\ Len(history) = HISTORY_LIMIT
    /\ history[1] = OldEntry(2)
    /\ history[HISTORY_LIMIT - 1] = OldEntry(HISTORY_LIMIT)
    /\ history[HISTORY_LIMIT].status = "failed"

\* The name has none of the illegal characters, no two whitespace characters
\* in a row and no whitespace at either end.
Sanitized(s) ==
    /\ \A i \in 1..Len(s) : s[i] \notin IllegalChars
    /\ \A i \in 1..(Len(s) - 1) :
            ~(s[i] \in WhitespaceChars /\ s[i + 1] \in WhitespaceChars)
    /\ s # <<>> => s[1] \notin WhitespaceChars /\ s[Len(s)] \notin WhitespaceChars

\* C13: for every input, what clean_filename returns has none of the illegal
\* characters, no run of two or more whitespace characters and no leading or
\* trailing whitespace.
C13_Sanitized == clean_pc = "return" => Sanitized(ret_filename)

\* The input with the illegal characters removed, the whitespace collapsed
\* and the ends stripped.
CleanedForm(s) == Strip(CollapseWhitespace(RemoveIllegal(s)))
EndsWith(s, suffix) ==
    /\ Len(suffix) <= Len(s)
    /\ SubSeq(s, Len(s) - Len(suffix) + 1, Len(s)) = suffix

\* C14: for every input whose cleaned form is longer than 100 characters,
\* clean_filename returns a name of at most 100 characters that ends with
\* the extension of the input.
C14_Truncated ==
    (clean_pc = "return" /\ Len(CleanedForm(arg_filename)) > FILENAME_LIMIT)
        => /\ Len(ret_filename) <= FILENAME_LIMIT
           /\ EndsWith(ret_filename, SplitExt(CleanedForm(arg_filename)).ext)

\* C18: on PythonAnywhere, when auto_cleanup has returned, at most 15 .mp3
\* files are left in the download directory.
C18_KeepsNewest ==
    (IS_PYTHONANYWHERE /\ cleanup_pc = "done")
        => Cardinality({f \in DOMAIN files : IsMp3(f)}) <= max_files

Recorded(j) == j \in DOMAIN active_downloads
ResultStates == {"success", "exists", "error"}

\* C21: under fair scheduling every admitted job eventually has a result in
\* active_downloads; the result has status success, exists or error, is
\* written by the last step of the thread and never written again, and once
\* it is there the status record of the job is not written any more.
C21_OneResult ==
    /\ \A j \in JobIds : [](Issued(j) => <>Recorded(j))
    /\ [](\A j \in JobIds :
            /\ Recorded(j) <=> pc[j] = "done"
            /\ Recorded(j) => active_downloads[j].status \in ResultStates)
    /\ [][\A j \in JobIds :
            Recorded(j)
                => /\ j \in DOMAIN active_downloads'
                   /\ active_downloads'[j] = active_downloads[j]
                   /\ HasRecord(j) <=> j \in DOMAIN download_progress'
                   /\ HasRecord(j) => download_progress'[j] = download_progress[j]]_vars

\* Both jobs have recorded a result, one after a failed precondition and
\* without a status record, the other after a transfer.
C21_Witness ==
    \E j, k \in JobIds :
        /\ Recorded(j)
        /\ ~HasRecord(j)
        /\ exc[j].msg \in PreconditionMessages
        /\ active_downloads[j].status = "error"
        /\ Recorded(k)
        /\ active_downloads[k].status = "success"
        /\ Status(k) = "completed"

====
